---------------------------- MODULE Spec2Model ----------------------------
(***************************************************************************)
(* Study-notes quiz backend: the deterministic quiz generator               *)
(* (services/quiz_generator.py), the JSON file store                        *)
(* (storage/json_store.py) and the request handlers (api/main.py).          *)
(*                                                                          *)
(* A Python str is modelled as a sequence of one-character strings, so that *)
(* trimming, splitting, tokenizing, reversing, capitalizing and comparing   *)
(* are computed character by character, as the code computes them.          *)
(***************************************************************************)
EXTENDS Integers, Sequences, FiniteSets, TLC

(***************************************************************************)
(* Characters                                                               *)
(***************************************************************************)

\* The characters of the model with their code points (ord): whitespace, the
\* digits, the letters and the punctuation marks the notes of the model use.
Digits == << "0", "1", "2", "3", "4", "5", "6", "7", "8", "9" >>

UpperCase ==
    << "A", "B", "C", "D", "E", "F", "G", "H", "I", "J", "K", "L", "M",
       "N", "O", "P", "Q", "R", "S", "T", "U", "V", "W", "X", "Y", "Z" >>

LowerCase ==
    << "a", "b", "c", "d", "e", "f", "g", "h", "i", "j", "k", "l", "m",
       "n", "o", "p", "q", "r", "s", "t", "u", "v", "w", "x", "y", "z" >>

Range(s) == { s[i] : i \in DOMAIN s }

IndexOf(s, c) == CHOOSE i \in DOMAIN s : s[i] = c

OtherChars ==
    [ c \in {"\t", "\n", " ", "!", "&", "'", ",", "-", ".", ":", ";", "?", "_"} |->
        CASE c = "\t" -> 9  [] c = "\n" -> 10 [] c = " " -> 32 [] c = "!" -> 33
          [] c = "&" -> 38  [] c = "'" -> 39  [] c = "," -> 44 [] c = "-" -> 45
          [] c = "." -> 46  [] c = ":" -> 58  [] c = ";" -> 59 [] c = "?" -> 63
          [] c = "_" -> 95 ]

OrdTable ==
    [ c \in Range(Digits) \cup Range(UpperCase) \cup Range(LowerCase) \cup DOMAIN OtherChars |->
        IF c \in Range(Digits) THEN 47 + IndexOf(Digits, c)
        ELSE IF c \in Range(UpperCase) THEN 64 + IndexOf(UpperCase, c)
        ELSE IF c \in Range(LowerCase) THEN 96 + IndexOf(LowerCase, c)
        ELSE OtherChars[c] ]

Ord(c) == OrdTable[c]

IsUpper(c) == Ord(c) >= 65 /\ Ord(c) <= 90
IsLower(c) == Ord(c) >= 97 /\ Ord(c) <= 122
IsAlpha(c) == IsUpper(c) \/ IsLower(c)
IsDigit(c) == Ord(c) >= 48 /\ Ord(c) <= 57
IsAlnum(c) == IsAlpha(c) \/ IsDigit(c)
IsSpace(c) == c \in {" ", "\t", "\n"}
\* \w of the re module: letters, digits and the underscore
IsWordChar(c) == IsAlnum(c) \/ c = "_"
\* string.punctuation
IsPunct(c) == Ord(c) >= 33 /\ Ord(c) <= 126 /\ ~IsAlnum(c)

ToLower(c) == IF IsUpper(c) THEN LowerCase[Ord(c) - 64] ELSE c
ToUpper(c) == IF IsLower(c) THEN UpperCase[Ord(c) - 96] ELSE c

(***************************************************************************)
(* The str methods the program uses                                         *)
(***************************************************************************)

Lower(s) == [ i \in DOMAIN s |-> ToLower(s[i]) ]

\* str.capitalize(): first character upper-cased, the rest lower-cased
Capitalize(s) == [ i \in DOMAIN s |-> IF i = 1 THEN ToUpper(s[i]) ELSE ToLower(s[i]) ]

\* s[::-1]
Reversed(s) == [ i \in DOMAIN s |-> s[Len(s) + 1 - i] ]

AllChars == DOMAIN OrdTable
SpaceChars == { c \in AllChars : IsSpace(c) }
AlphaChars == { c \in AllChars : IsAlpha(c) }
\* string.punctuation + " ", the characters _sanitize_option strips
PunctOrBlank == { c \in AllChars : IsPunct(c) \/ c = " " }

\* Index of the first / last character of s outside drop (Len+1 / 0 if none).
FirstKept(s, drop) ==
    IF \E i \in DOMAIN s : s[i] \notin drop
    THEN CHOOSE i \in DOMAIN s : s[i] \notin drop /\ \A j \in 1..(i - 1) : s[j] \in drop
    ELSE Len(s) + 1

LastKept(s, drop) ==
    IF \E i \in DOMAIN s : s[i] \notin drop
    THEN CHOOSE i \in DOMAIN s : s[i] \notin drop /\ \A j \in (i + 1)..Len(s) : s[j] \in drop
    ELSE 0

\* str.strip(chars)
StripChars(s, drop) == SubSeq(s, FirstKept(s, drop), LastKept(s, drop))

\* str.strip()
Strip(s) == StripChars(s, SpaceChars)

\* str.rstrip()
RStrip(s) == SubSeq(s, 1, LastKept(s, SpaceChars))

\* Lexicographic order of str by code point: a < b
StrLess(a, b) ==
    \E k \in 1..(Len(b)) :
        /\ \A j \in 1..(k - 1) : j <= Len(a) /\ a[j] = b[j]
        /\ \/ k = Len(a) + 1
           \/ k <= Len(a) /\ Ord(a[k]) < Ord(b[k])

\* The k-th smallest member of a finite set of integers
KthSmallest(S, k) == CHOOSE i \in S : Cardinality({ j \in S : j < i }) = k - 1

\* The elements of s at the indices keepIdx, in order
SelectIdx(s, keepIdx) ==
    [ k \in 1..Cardinality(keepIdx) |-> s[KthSmallest(keepIdx, k)] ]

\* Last index of the run of characters of the set keep that starts at i
RunEnd(s, i, keep) ==
    CHOOSE j \in i..Len(s) :
        /\ \A k \in i..j : s[k] \in keep
        /\ (j = Len(s) \/ s[j + 1] \notin keep)

\* The maximal runs of characters of the set keep, in order.
Runs(s, keep) ==
    LET starts == { i \in DOMAIN s : s[i] \in keep /\ (i = 1 \/ s[i - 1] \notin keep) }
    IN  [ k \in 1..Cardinality(starts) |->
            LET i == KthSmallest(starts, k) IN SubSeq(s, i, RunEnd(s, i, keep)) ]

\* str.split() with no argument: the whitespace-separated words
SplitWords(s) == Runs(s, AllChars \ SpaceChars)

RECURSIVE JoinWith(_, _)
JoinWith(parts, sep) ==
    IF parts = <<>> THEN <<>>
    ELSE IF Len(parts) = 1 THEN parts[1]
    ELSE parts[1] \o sep \o JoinWith(Tail(parts), sep)

(***************************************************************************)
(* services/quiz_generator.py: text analysis                                *)
(***************************************************************************)

STOPWORDS ==
    {
      <<"a">>, <<"a","n">>, <<"t","h","e">>, <<"a","n","d">>, <<"o","r">>, <<"b","u","t">>,
      <<"i","f">>, <<"w","h","i","l","e">>, <<"a","s">>, <<"o","f">>, <<"i","n">>, <<"o","n">>,
      <<"f","o","r">>, <<"t","o">>, <<"f","r","o","m">>, <<"b","y">>,
      <<"w","i","t","h">>, <<"w","i","t","h","o","u","t">>, <<"a","t">>, <<"a","b","o","u","t">>,
      <<"i","n","t","o">>, <<"o","v","e","r">>, <<"a","f","t","e","r">>,
      <<"b","e","f","o","r","e">>, <<"b","e","t","w","e","e","n">>, <<"t","h","r","o","u","g","h">>,
      <<"d","u","r","i","n","g">>, <<"a","b","o","v","e">>,
      <<"b","e","l","o","w">>, <<"u","p">>, <<"d","o","w","n">>, <<"o","u","t">>, <<"o","f","f">>,
      <<"a","g","a","i","n">>, <<"f","u","r","t","h","e","r">>, <<"t","h","e","n">>,
      <<"o","n","c","e">>,
      <<"i","s">>, <<"a","m">>, <<"a","r","e">>, <<"w","a","s">>, <<"w","e","r","e">>, <<"b","e">>,
      <<"b","e","e","n">>, <<"b","e","i","n","g">>,
      <<"d","o">>, <<"d","o","e","s">>, <<"d","i","d">>, <<"d","o","i","n","g">>,
      <<"h","a","v","e">>, <<"h","a","s">>, <<"h","a","d">>, <<"h","a","v","i","n","g">>,
      <<"h","e">>, <<"s","h","e">>, <<"i","t">>, <<"t","h","e","y">>, <<"t","h","e","m">>,
      <<"h","i","s">>, <<"h","e","r">>, <<"i","t","s">>, <<"t","h","e","i","r">>,
      <<"t","h","e","i","r","s">>, <<"y","o","u">>, <<"y","o","u","r">>, <<"y","o","u","r","s">>,
      <<"i">>, <<"w","e">>, <<"o","u","r">>, <<"o","u","r","s">>,
      <<"t","h","i","s">>, <<"t","h","a","t">>, <<"t","h","e","s","e">>, <<"t","h","o","s","e">>,
      <<"t","h","e","r","e">>, <<"h","e","r","e">>, <<"s","u","c","h">>,
      <<"c","a","n">>, <<"c","o","u","l","d">>, <<"s","h","o","u","l","d">>,
      <<"w","o","u","l","d">>, <<"m","a","y">>, <<"m","i","g","h","t">>, <<"m","u","s","t">>,
      <<"w","i","l","l">>, <<"s","h","a","l","l">>,
      <<"n","o","t">>, <<"n","o">>, <<"n","o","r">>, <<"o","n","l","y">>, <<"o","w","n">>,
      <<"s","a","m","e">>, <<"s","o">>, <<"t","h","a","n">>, <<"t","o","o">>, <<"v","e","r","y">>,
      <<"w","h","a","t">>, <<"w","h","i","c","h">>, <<"w","h","o">>, <<"w","h","o","m">>,
      <<"w","h","e","r","e">>, <<"w","h","e","n">>, <<"w","h","y">>, <<"h","o","w">>
    }

\* The characters after which _SENTENCE_SPLIT_REGEX, (?<=[.!?])\s+, splits.
SentenceEnd == {".", "!", "?"}

\* re.split on (?<=[.!?])\s+ : every maximal whitespace run that directly follows
\* a sentence-ending character is a separator; the parts between are returned.
RegexSplit(s) ==
    LET seps == { i \in DOMAIN s : s[i] \in SpaceChars /\ i > 1 /\ s[i - 1] \in SentenceEnd }
        n == Cardinality(seps)
        from(k) == IF k = 1 THEN 1 ELSE RunEnd(s, KthSmallest(seps, k - 1), SpaceChars) + 1
        to(k) == IF k = n + 1 THEN Len(s) ELSE KthSmallest(seps, k) - 1
    IN  [ k \in 1..(n + 1) |-> SubSeq(s, from(k), to(k)) ]

split_sentences(text0) ==
    LET text == Strip(text0)
        parts == RegexSplit(text)
        kept == { i \in DOMAIN parts :
                    parts[i] # <<>> /\ \E k \in DOMAIN parts[i] : IsAlnum(parts[i][k]) }
        sel == SelectIdx(parts, kept)
    IN  IF text = <<>> THEN <<>>
        ELSE [ i \in DOMAIN sel |-> Strip(sel[i]) ]

\* _TOKEN_REGEX = [A-Za-z]+ : the maximal alphabetic runs, lower-cased
tokenize_alpha(text) ==
    LET runs == Runs(text, AlphaChars)
    IN  [ i \in DOMAIN runs |-> Lower(runs[i]) ]

\* Mutant of Skipped: the stopword test is missing
SkippedShortOnly(t) == Len(t) <= 2

\* t in _STOPWORDS or len(t) <= 2
Skipped(t) == t \in STOPWORDS \/ Len(t) <= 2

\* One pass of the inner loop body of collect_candidates: the dictionaries freq
\* and examples are kept together as a sequence of entries in insertion order.
CountToken(entries, t, sent) ==
    IF \E i \in DOMAIN entries : entries[i].term = t
    THEN [ i \in DOMAIN entries |->
             IF entries[i].term = t
             THEN [ term |-> t,
                    freq |-> entries[i].freq + 1,
                    sentences |-> IF Len(entries[i].sentences) < 3
                                  THEN Append(entries[i].sentences, sent)
                                  ELSE entries[i].sentences ]
             ELSE entries[i] ]
    ELSE Append(entries, [ term |-> t, freq |-> 1, sentences |-> <<sent>> ])

RECURSIVE CountTokens(_, _, _)
CountTokens(entries, tokens, sent) ==
    IF tokens = <<>> THEN entries
    ELSE CountTokens(IF Skipped(Head(tokens)) THEN entries
                     ELSE CountToken(entries, Head(tokens), sent),
                     Tail(tokens), sent)

RECURSIVE CountSentences(_, _)
CountSentences(entries, sentences) ==
    IF sentences = <<>> THEN entries
    ELSE CountSentences(CountTokens(entries, tokenize_alpha(Head(sentences)), Head(sentences)),
                        Tail(sentences))

\* The sort key (-c.freq, c.term): a comes before b
CandBefore(a, b) ==
    \/ a.freq > b.freq
    \/ a.freq = b.freq /\ StrLess(a.term, b.term)

\* list.sort(key = ...): a stable sort by CandBefore (insertion sort).
RECURSIVE InsertCand(_, _)
InsertCand(sorted, c) ==
    IF sorted = <<>> THEN <<c>>
    ELSE IF CandBefore(c, Head(sorted)) THEN <<c>> \o sorted
    ELSE <<Head(sorted)>> \o InsertCand(Tail(sorted), c)

RECURSIVE SortCands(_)
SortCands(cs) ==
    IF cs = <<>> THEN <<>>
    ELSE InsertCand(SortCands(SubSeq(cs, 1, Len(cs) - 1)), cs[Len(cs)])

collect_candidates(sentences) == SortCands(CountSentences(<<>>, sentences))

(***************************************************************************)
(* services/quiz_generator.py: hash, seed and the seeded generator          *)
(***************************************************************************)

Min(a, b) == IF a < b THEN a ELSE b
Max(a, b) == IF a > b THEN a ELSE b

HexDigits == Digits \o << "a", "b", "c", "d", "e", "f" >>

\* Number of hex characters of a digest in the model, which keeps the first 16
\* of hexdigest(): the prefix the program reads (hex[:16], hex[:12]).
HexLen == 16

\* Modulus of the digest's mixing sum, and of the sequence its digits come from.
HashMod == 65521
DigestMod == 65537

\* A sum over the characters of s[lo..hi], each weighted by its position
RECURSIVE MixRange(_, _, _)
MixRange(s, lo, hi) ==
    IF lo > hi THEN 0
    ELSE IF lo = hi THEN (Ord(s[lo]) * (((lo * lo + 3 * lo + 7) % 251) + 1)) % HashMod
    ELSE LET mid == (lo + hi) \div 2
         IN  (MixRange(s, lo, mid) + MixRange(s, mid + 1, hi)) % HashMod

RECURSIVE DigestState(_, _)
DigestState(text, k) ==
    IF k = 0 THEN (MixRange(text, 1, Len(text)) + 31 * Len(text) + 1) % DigestMod
    ELSE (DigestState(text, k - 1) * 75 + 74) % DigestMod

\* hashlib.sha256(text).hexdigest(): SHA-256 itself is not computed; the digest is
\* a fixed function of the characters and their positions, a hex string.
stable_hash(text) ==
    [ k \in 1..HexLen |-> HexDigits[((DigestState(text, k) \div 16) % 16) + 1] ]

HexValue(c) == IndexOf(HexDigits, c) - 1

\* Number of states of the seeded generator of the model.
RngMod == 65536

\* int(hex_digest[:16], 16), reduced to the states of the generator
RECURSIVE HexToInt(_)
HexToInt(hex) ==
    IF hex = <<>> THEN 0
    ELSE (HexToInt(SubSeq(hex, 1, Len(hex) - 1)) * 16 + HexValue(hex[Len(hex)])) % RngMod

seed_from_hash(hex_digest) == HexToInt(SubSeq(hex_digest, 1, 16))

\* random.Random: a deterministic generator, here a linear congruential one.
\* Each draw advances the state; the result is a function of the state alone.
RngMul == 25173
RngInc == 13849
RngNext(rng) == (rng * RngMul + RngInc) % RngMod

\* rng._randbelow(n): a value in 0..n-1 and the advanced generator
RandBelow(rng, n) ==
    LET nxt == RngNext(rng)
    IN  [ val |-> (nxt \div 16) % n, rng |-> nxt ]

Swap(x, i, j) == [ x EXCEPT ![i] = x[j], ![j] = x[i] ]

\* rng.shuffle(x): for i in reversed(range(1, len(x))): j = randbelow(i + 1); swap
RECURSIVE ShuffleFrom(_, _, _)
ShuffleFrom(x, p, rng) ==
    IF p < 2 THEN [ val |-> x, rng |-> rng ]
    ELSE LET r == RandBelow(rng, p)
         IN  ShuffleFrom(Swap(x, p, r.val + 1), p - 1, r.rng)

Shuffle(x, rng) == ShuffleFrom(x, Len(x), rng)

\* rng.choice(seq): seq[randbelow(len(seq))]
Choice(seq, rng) ==
    LET r == RandBelow(rng, Len(seq))
    IN  [ val |-> seq[r.val + 1], rng |-> r.rng ]

(***************************************************************************)
(* services/quiz_generator.py: questions and options                        *)
(***************************************************************************)

Str_s == <<"s">>
Str_ed == <<"e", "d">>
Str_ing == <<"i", "n", "g">>
Str_ity == <<"i", "t", "y">>
Str_ness == <<"n", "e", "s", "s">>

\* The suffix lists handed to rng.choice
WordSuffixes == << <<>>, Str_s, Str_ed, Str_ing >>
ShortSuffixes == << <<"1">>, <<"2">>, <<"3">>, <<"x">> >>
SynthSuffixes == << <<>>, Str_s, Str_ed, Str_ing, Str_ity, Str_ness >>

Blank == << "_", "_", "_", "_", "_" >>
Ellipsis == << ".", ".", "." >>

\* The length above which a sentence is cut, and the length it is cut to.
MaxSnippet == 220
CutSnippet == 217

\* text[:217].rstrip() + "..." when len(text) > 220
Truncate(text) ==
    IF Len(text) > MaxSnippet
    THEN RStrip(SubSeq(text, 1, CutSnippet)) \o Ellipsis
    ELSE text

\* Start indices of the matches of \bterm\b (re.IGNORECASE) in sentence.
TermMatches(term, sentence) ==
    { i \in 1..(Len(sentence) - Len(term) + 1) :
        /\ Lower(SubSeq(sentence, i, i + Len(term) - 1)) = Lower(term)
        /\ (i = 1 \/ IsWordChar(sentence[i - 1]) # IsWordChar(sentence[i]))
        /\ (i + Len(term) > Len(sentence)
              \/ IsWordChar(sentence[i + Len(term) - 1]) # IsWordChar(sentence[i + Len(term)])) }

\* pattern.sub("_____", sentence)
BlankOut(term, sentence) ==
    LET ms == TermMatches(term, sentence)
        n == Cardinality(ms)
        from(k) == IF k = 1 THEN 1 ELSE KthSmallest(ms, k - 1) + Len(term)
        to(k) == IF k = n + 1 THEN Len(sentence) ELSE KthSmallest(ms, k) - 1
    IN  JoinWith([ k \in 1..(n + 1) |-> SubSeq(sentence, from(k), to(k)) ], Blank)

\* The f-strings of the two question styles are kept as their three pieces:
\* the text before the quoted sentence, the sentence, the text after it.
make_fill_in_question(term, sentence) ==
    << "In the context of the notes, which term best completes the blank: '",
       Truncate(BlankOut(term, sentence)),
       "'?" >>

make_definition_like_question(term, support_sentence) ==
    << "Which term is most closely described by: '",
       Truncate(Strip(support_sentence)),
       "'?" >>

\* " ".join(text.split()).strip(string.punctuation + " ")
sanitize_option(text) == StripChars(JoinWith(SplitWords(text), <<" ">>), PunctOrBlank)

\* Mutant of unique_preserve_order: duplicates are kept
keep_duplicates(items) == items

unique_preserve_order(items) ==
    SelectIdx(items, { i \in DOMAIN items : \A j \in 1..(i - 1) : items[j] # items[i] })

\* items[:n]
Take(items, n) == SubSeq(items, 1, Min(n, Len(items)))

RECURSIVE ToDecimal(_)
ToDecimal(n) ==
    IF n < 10 THEN << Digits[n + 1] >>
    ELSE ToDecimal(n \div 10) \o << Digits[(n % 10) + 1] >>

\* f"{n:0wd}"
ZeroPad(n, w) ==
    LET d == ToDecimal(n)
    IN  [ i \in 1..(w - Len(d)) |-> "0" ] \o d


(***************************************************************************)
(* services/quiz_generator.py: generate_quiz_from_notes, step by step       *)
(***************************************************************************)

\* title = None
NoTitle == "None"

max_questions == 8
min_questions == 5
\* The n of _pick_distractors(all_terms, correct, rng, 3)
NumDistractors == 3
\* The number of options of a question
NumOptions == 4

Str_Concept == << "C", "o", "n", "c", "e", "p", "t" >>

\* [f"Concept{i}" for i in range(1, 12)]
Placeholders == [ i \in 1..11 |-> Str_Concept \o ToDecimal(i) ]

\* Mutant of FallbackCandidates: the candidates get the split sentences of the
\* notes instead of the whole notes.
FallbackSplitSentences(notes) ==
    LET counted == CountTokens(<<>>, Placeholders, notes)
        sorted_tokens == Take(SortCands(counted), 12)
    IN  [ i \in DOMAIN sorted_tokens |->
            [ term |-> sorted_tokens[i].term,
              freq |-> sorted_tokens[i].freq,
              sentences |-> split_sentences(notes) ] ]

\* The fallback of generate_quiz_from_notes when no candidate was collected:
\* the filtered tokens of the whole notes, or the placeholders, counted, sorted
\* by (-count, token), cut to 12, each with the notes as its only sentence.
FallbackCandidates(notes) ==
    LET toks == tokenize_alpha(notes)
        kept == SelectIdx(toks, { i \in DOMAIN toks : ~Skipped(toks[i]) })
        tokens == IF kept = <<>> THEN Placeholders ELSE kept
        counted == CountTokens(<<>>, tokens, notes)
        sorted_tokens == Take(SortCands(counted), 12)
    IN  [ i \in DOMAIN sorted_tokens |->
            [ term |-> sorted_tokens[i].term,
              freq |-> sorted_tokens[i].freq,
              sentences |-> <<notes>> ] ]

\* The strings of a set in ascending order
SortedStrings(S) ==
    [ k \in 1..Cardinality(S) |->
        CHOOSE x \in S : Cardinality({ y \in S : StrLess(y, x) }) = k - 1 ]

RemoveAt(seq, i) == SubSeq(seq, 1, i - 1) \o SubSeq(seq, i + 1, Len(seq))

RECURSIVE Permuted(_, _)
Permuted(seq, k) ==
    IF seq = <<>> THEN <<>>
    ELSE LET i == (k % Len(seq)) + 1
         IN  <<seq[i]>> \o Permuted(RemoveAt(seq, i), k \div Len(seq))

\* list(variants) of a set of str: the iteration order of a set depends on the
\* string hashes, which the interpreter salts per process (PYTHONHASHSEED); the
\* process's hash seed selects the order.
ListOfSet(S, hashseed) == Permuted(SortedStrings(S), hashseed)

\* The locals of a call before its first step
GenCall(hashseed) ==
    [ pc |-> "call", hashseed |-> hashseed, notes |-> <<>>, src_hash |-> <<>>, rng |-> 0,
      sentences |-> <<>>, candidates |-> <<>>, num_questions |-> 0, all_terms |-> <<>>,
      picked |-> <<>>, questions |-> <<>>, q_text |-> <<>>, correct |-> <<>>,
      variants |-> {}, pool |-> <<>>, options |-> <<>>, quiz |-> <<>> ]

\* Lines 185-222: hash, seed, sentences, candidates, question count, fallback,
\* the pool of terms and the shuffled, truncated selection.
GenStart(g, notes0) ==
    LET notes == Strip(notes0)
        src_hash == stable_hash(notes)
        rng == seed_from_hash(src_hash)
        sentences == split_sentences(notes)
        collected == collect_candidates(sentences)
        desired == Min(Max(Len(collected), min_questions), max_questions)
        num_questions == IF collected # <<>>
                         THEN Max(min_questions, Min(desired, Len(collected)))
                         ELSE min_questions
        candidates == IF collected = <<>> THEN FallbackCandidates(notes) ELSE collected
        all_terms == unique_preserve_order([ i \in DOMAIN candidates |-> candidates[i].term ])
        sh == Shuffle(candidates, rng)
    IN  [ g EXCEPT !.pc = "question", !.notes = notes, !.src_hash = src_hash,
                   !.rng = sh.rng, !.sentences = sentences, !.candidates = candidates,
                   !.num_questions = num_questions, !.all_terms = all_terms,
                   !.picked = Take(sh.val, num_questions) ]

\* Lines 226-240 and 87-92: the supporting sentence, the question text, and the
\* pool of _pick_distractors; a short pool starts the set of variants.
GenBeginQuestion(g) ==
    LET idx == Len(g.questions) + 1
        cand == g.picked[idx]
        sup == IF cand.sentences # <<>> THEN Choice(cand.sentences, g.rng)
               ELSE IF g.sentences # <<>> THEN Choice(g.sentences, g.rng)
               ELSE [ val |-> g.notes, rng |-> g.rng ]
        q_text == IF idx % 2 = 1
                  THEN make_fill_in_question(cand.term, sup.val)
                  ELSE make_definition_like_question(cand.term, sup.val)
        pool == SelectIdx(g.all_terms, { i \in DOMAIN g.all_terms : g.all_terms[i] # cand.term })
    IN  [ g EXCEPT !.rng = sup.rng, !.q_text = q_text, !.correct = cand.term,
                   !.pool = pool,
                   !.variants = IF Len(pool) < NumDistractors THEN Range(pool) ELSE {},
                   !.pc = IF Len(pool) < NumDistractors THEN "variants" ELSE "options" ]

\* Lines 94-99: what one pass of the loop adds, the generator's choice being the
\* k-th suffix of the list.
AddVariants(variants, base, k) ==
    IF Len(base) > 3
    THEN variants \cup { Reversed(base), base \o WordSuffixes[k], Capitalize(base) }
    ELSE variants \cup { base \o ShortSuffixes[k] }

\* Line 101: the test that leaves the loop early
VariantCapExceeded(variants) == Cardinality(variants) > 10 * NumDistractors

\* Lines 93-102: one iteration of "while len(variants) < n"
GenVariantIter(g) ==
    LET r == RandBelow(g.rng, 4)
        variants == AddVariants(g.variants, g.correct, r.val + 1)
    IN  IF VariantCapExceeded(variants)
        THEN [ g EXCEPT !.rng = r.rng, !.variants = variants,
                        !.pool = ListOfSet(variants, g.hashseed), !.pc = "options" ]
        ELSE [ g EXCEPT !.rng = r.rng, !.variants = variants ]

\* Line 103: pool = list(variants), once the loop condition fails
GenVariantExit(g) ==
    [ g EXCEPT !.pool = ListOfSet(g.variants, g.hashseed), !.pc = "options" ]

\* Lines 244-245: while len(options) < 4: options.append(sanitize(correct + choice))
RECURSIVE PadOptions(_, _, _)
PadOptions(options, correct, rng) ==
    IF Len(options) >= NumOptions THEN [ val |-> options, rng |-> rng ]
    ELSE LET c == Choice(WordSuffixes, rng)
         IN  PadOptions(Append(options, sanitize_option(correct \o c.val)), correct, c.rng)

\* Lines 104-105 and 241-249: shuffle the pool, take n distractors, sanitize,
\* pad, truncate to 4 and drop duplicates.
GenOptions(g) ==
    LET sh == Shuffle(g.pool, g.rng)
        distractors == Take(sh.val, NumDistractors)
        raw_options == <<g.correct>> \o distractors
        kept == SelectIdx(raw_options,
                          { i \in DOMAIN raw_options :
                              raw_options[i] # <<>> /\ Strip(raw_options[i]) # <<>> })
        sanitized == [ i \in DOMAIN kept |-> sanitize_option(kept[i]) ]
        padded == PadOptions(sanitized, g.correct, sh.rng)
    IN  [ g EXCEPT !.rng = padded.rng,
                   !.options = unique_preserve_order(Take(padded.val, NumOptions)),
                   !.pc = "repad" ]

\* Lines 252-254: one pass of the re-padding loop, the choice being the k-th suffix
AddSynthetic(options, correct, k) ==
    LET synth == correct \o SynthSuffixes[k]
    IN  IF \E i \in DOMAIN options : options[i] = synth THEN options
        ELSE Append(options, synth)

\* Lines 250-254: one iteration of "while len(options) < 4"
GenRepadIter(g) ==
    LET r == RandBelow(g.rng, 6)
    IN  [ g EXCEPT !.rng = r.rng, !.options = AddSynthetic(g.options, g.correct, r.val + 1) ]

\* Mutant of CorrectIndex: the position of the term before the shuffle
CorrectIndexUnshuffled(shuffled, correct) == 0

\* shuffled.index(correct) if correct in shuffled else 0   (0-based)
CorrectIndex(shuffled, correct) ==
    IF \E i \in DOMAIN shuffled : shuffled[i] = correct
    THEN (CHOOSE i \in DOMAIN shuffled :
              shuffled[i] = correct /\ \A j \in 1..(i - 1) : shuffled[j] # correct) - 1
    ELSE 0

\* Lines 256-269: shuffle the options by an index permutation, find the correct
\* term and append the question.
GenEmit(g) ==
    LET idx == Len(g.questions) + 1
        sh == Shuffle([ i \in DOMAIN g.options |-> i ], g.rng)
        shuffled == [ i \in DOMAIN sh.val |-> g.options[sh.val[i]] ]
        question == [ id |-> << "q", "-" >> \o ToDecimal(idx),
                      question |-> g.q_text,
                      options |-> shuffled,
                      correct_index |-> CorrectIndex(shuffled, g.correct) ]
        questions == Append(g.questions, question)
    IN  [ g EXCEPT !.rng = sh.rng, !.questions = questions,
                   !.pc = IF Len(questions) < Len(g.picked) THEN "question" ELSE "title" ]

Str_Quiz == << "Q", "u", "i", "z", ":", " " >>
Str_StudyNotes == << "S", "t", "u", "d", "y", " ", "N", "o", "t", "e", "s" >>
Str_quiz == << "q", "u", "i", "z", "-" >>

\* Mutant of DeriveTitle: the supplied title is not trimmed
DeriveTitleUntrimmed(title, candidates) ==
    LET top == Take(candidates, 2)
        top_terms == [ i \in DOMAIN top |-> Capitalize(top[i].term) ]
    IN  IF title # NoTitle /\ title # <<>> /\ Strip(title) # <<>> THEN title
        ELSE Str_Quiz \o (IF top_terms # <<>> THEN JoinWith(top_terms, << " ", "&", " " >>)
                          ELSE Str_StudyNotes)

\* Lines 271-276
DeriveTitle(title, candidates) ==
    LET derived_title == IF title # NoTitle /\ title # <<>> THEN Strip(title) ELSE <<>>
        top == Take(candidates, 2)
        top_terms == [ i \in DOMAIN top |-> Capitalize(top[i].term) ]
    IN  IF derived_title # <<>> THEN derived_title
        ELSE Str_Quiz \o (IF top_terms # <<>> THEN JoinWith(top_terms, << " ", "&", " " >>)
                          ELSE Str_StudyNotes)

\* bytes.fromhex(src_hash[:16])[i]   (i 0-based)
HashByte(src_hash, i) == HexValue(src_hash[2 * i + 1]) * 16 + HexValue(src_hash[2 * i + 2])

\* Lines 280-287
CreatedAt(src_hash) ==
    ZeroPad(2000 + (HashByte(src_hash, 0) % 30), 4) \o <<"-">>
      \o ZeroPad(1 + (HashByte(src_hash, 1) % 12), 2) \o <<"-">>
      \o ZeroPad(1 + (HashByte(src_hash, 2) % 28), 2) \o <<"T">>
      \o ZeroPad(HashByte(src_hash, 3) % 24, 2) \o <<":">>
      \o ZeroPad(HashByte(src_hash, 4) % 60, 2) \o <<":">>
      \o ZeroPad(HashByte(src_hash, 5) % 60, 2) \o <<"Z">>

\* Lines 271-298: title, timestamp, id and the quiz
GenFinish(g, title) ==
    [ g EXCEPT !.pc = "done",
               !.quiz = [ id |-> Str_quiz \o SubSeq(g.src_hash, 1, 12),
                          title |-> DeriveTitle(title, g.candidates),
                          created_at |-> CreatedAt(g.src_hash),
                          source_notes_hash |-> g.src_hash,
                          questions |-> g.questions ] ]

\* The step the call takes next
GenStep(g, notes0, title) ==
    CASE g.pc = "call" -> GenStart(g, notes0)
      [] g.pc = "question" -> GenBeginQuestion(g)
      [] g.pc = "variants" ->
            IF Cardinality(g.variants) < NumDistractors THEN GenVariantIter(g)
            ELSE GenVariantExit(g)
      [] g.pc = "options" -> GenOptions(g)
      [] g.pc = "repad" ->
            IF Len(g.options) < NumOptions THEN GenRepadIter(g) ELSE GenEmit(g)
      [] g.pc = "title" -> GenFinish(g, title)
      [] OTHER -> g

\* The whole call: its steps taken until it returns
RECURSIVE GenRun(_, _, _)
GenRun(g, notes0, title) ==
    IF g.pc = "done" THEN g ELSE GenRun(GenStep(g, notes0, title), notes0, title)

generate_quiz_from_notes(notes0, title, hashseed) == GenRun(GenCall(hashseed), notes0, title).quiz


(***************************************************************************)
(* The inputs of the model                                                  *)
(***************************************************************************)

\* Longest generated notes, in words
MaxWords == 2
\* Largest hash seed of a process (PYTHONHASHSEED)
MaxHashSeed == 1

W_cat ==
    <<"c", "a", "t">>

W_level ==
    <<"l", "e", "v", "e", "l">>

W_live ==
    <<"l", "i", "v", "e">>

W_evil ==
    <<"e", "v", "i", "l">>

W_the ==
    <<"t", "h", "e">>

Vocabulary == { W_cat, W_level, W_live, W_evil, W_the }

\* Every sequence of 1..MaxWords words of the vocabulary, joined by blanks
WordNotes ==
    { JoinWith(ws, <<" ">>) : ws \in UNION { [ 1..k -> Vocabulary ] : k \in 1..MaxWords } }

MitoNotes ==
    <<"T", "h", "e", " ", "m", "i", "t", "o", "c", "h", "o", "n", "d", "r", "i", "a", " ", "i", "s",
    " ", "t", "h", "e", " ", "p", "o", "w", "e", "r", "h", "o", "u", "s", "e", " ", "o", "f", " ",
    "t", "h", "e", " ", "c", "e", "l", "l", ".", " ", "M", "i", "t", "o", "c", "h", "o", "n", "d",
    "r", "i", "a", " ", "p", "r", "o", "d", "u", "c", "e", " ", "A", "T", "P", " ", "t", "h", "r",
    "o", "u", "g", "h", " ", "r", "e", "s", "p", "i", "r", "a", "t", "i", "o", "n", ".">>

DigitNotes ==
    <<"1", "2", "3", "4", "5", " ", "!", "!", "!", " ", "6", "7", "8", "9">>

StopNotes ==
    <<" ", "T", "h", "e", " ", "o", "x", " ", "i", "s", " ", "i", "n", " ", "i", "t", ".", " ">>

FourNotes ==
    <<"G", "e", "n", "e", ",", " ", "c", "e", "l", "l", ";", " ", "a", "t", "o", "m", " ", "-", " ",
    "v", "i", "r", "u", "s", ".">>

NineNotes ==
    <<"a", "l", "p", "h", "a", " ", "b", "e", "t", "a", " ", "g", "a", "m", "m", "a", " ", "d", "e",
    "l", "t", "a", " ", "o", "m", "e", "g", "a", " ", "s", "i", "g", "m", "a", " ", "k", "a", "p",
    "p", "a", " ", "t", "h", "e", "t", "a", " ", "l", "a", "m", "b", "d", "a", ".", " ", "A", "l",
    "p", "h", "a", "!">>

CellNotes ==
    <<"\t", "C", "e", "l", "l", " ", "w", "a", "l", "l", "?", " ", "C", "e", "l", "l", " ", "w",
    "a", "l", "l", ".", " ", "C", "e", "l", "l", " ", "w", "a", "l", "l", "!", " ", "C", "e", "l",
    "l", " ", "w", "a", "l", "l", "\n">>

T_blank ==
    <<" ", " ">>

T_bio ==
    <<" ", "B", "i", "o", " ", "1", " ">>

FixedNotes == { MitoNotes, DigitNotes, StopNotes, FourNotes, NineNotes, CellNotes }

NotesSet == WordNotes \cup FixedNotes

TitleSet == { NoTitle, T_blank, T_bio }

HashSeeds == 0..MaxHashSeed

(***************************************************************************)
(* State                                                                    *)
(***************************************************************************)

VARIABLES
    notes,      \* the notes argument of the calls of generate_quiz_from_notes
    title,      \* their title argument
    gen,        \* gen[r]: the locals of call r
    iters,      \* passes made of the loop the call is in
    hashseed,   \* the hash seed of the server process
    served,     \* number of requests the server has accepted
    file,       \* the content of the store's JSON file
    handler     \* handler[h]: the state of request handler h

genVars == << notes, title, gen, iters >>
srvVars == << hashseed, served, file, handler >>
vars == << notes, title, gen, iters, hashseed, served, file, handler >>

\* Two calls with the same arguments, the second in a process of its own
Calls == { 1, 2 }

(***************************************************************************)
(* Spec: two calls of generate_quiz_from_notes on the same arguments        *)
(***************************************************************************)

\* The call starts in a process with some hash seed (lines 185-222).
Call(r) ==
    /\ gen[r].pc = "call"
    /\ r = 1 \/ gen[1].pc = "done"
    /\ \E hs \in HashSeeds : gen' = [ gen EXCEPT ![r] = GenStart(GenCall(hs), notes) ]
    /\ UNCHANGED << notes, title, iters >>
    /\ UNCHANGED srvVars

BeginQuestion(r) ==
    /\ gen[r].pc = "question"
    /\ gen' = [ gen EXCEPT ![r] = GenBeginQuestion(gen[r]) ]
    /\ UNCHANGED << notes, title, iters >>
    /\ UNCHANGED srvVars

VariantIter(r) ==
    /\ gen[r].pc = "variants"
    /\ Cardinality(gen[r].variants) < NumDistractors
    /\ gen' = [ gen EXCEPT ![r] = GenVariantIter(gen[r]) ]
    /\ UNCHANGED << notes, title, iters >>
    /\ UNCHANGED srvVars

VariantExit(r) ==
    /\ gen[r].pc = "variants"
    /\ Cardinality(gen[r].variants) >= NumDistractors
    /\ gen' = [ gen EXCEPT ![r] = GenVariantExit(gen[r]) ]
    /\ iters' = 0
    /\ UNCHANGED << notes, title >>
    /\ UNCHANGED srvVars

BuildOptions(r) ==
    /\ gen[r].pc = "options"
    /\ gen' = [ gen EXCEPT ![r] = GenOptions(gen[r]) ]
    /\ UNCHANGED << notes, title, iters >>
    /\ UNCHANGED srvVars

RepadIter(r) ==
    /\ gen[r].pc = "repad"
    /\ Len(gen[r].options) < NumOptions
    /\ gen' = [ gen EXCEPT ![r] = GenRepadIter(gen[r]) ]
    /\ UNCHANGED << notes, title, iters >>
    /\ UNCHANGED srvVars

EmitQuestion(r) ==
    /\ gen[r].pc = "repad"
    /\ Len(gen[r].options) >= NumOptions
    /\ gen' = [ gen EXCEPT ![r] = GenEmit(gen[r]) ]
    /\ iters' = 0
    /\ UNCHANGED << notes, title >>
    /\ UNCHANGED srvVars

Finish(r) ==
    /\ gen[r].pc = "title"
    /\ gen' = [ gen EXCEPT ![r] = GenFinish(gen[r], title) ]
    /\ UNCHANGED << notes, title, iters >>
    /\ UNCHANGED srvVars

\* The request handlers (worker threads) of the server
Handlers == { 1, 2 }

\* os.path.exists(self.path) is False
NoFile == "absent"

IdleHandler ==
    [ pc |-> "idle", kind |-> "none", notes |-> <<>>, title |-> NoTitle,
      quiz |-> <<>>, data |-> <<>>, status |-> 0 ]

Init ==
    /\ notes \in NotesSet
    /\ title \in TitleSet
    /\ gen = [ r \in Calls |-> GenCall(0) ]
    /\ iters = 0
    /\ hashseed = 0
    /\ served = 0
    /\ file = NoFile
    /\ handler = [ h \in Handlers |-> IdleHandler ]

Next ==
    \E r \in Calls :
        \/ Call(r)
        \/ BeginQuestion(r)
        \/ VariantIter(r)
        \/ VariantExit(r)
        \/ BuildOptions(r)
        \/ RepadIter(r)
        \/ EmitQuestion(r)
        \/ Finish(r)

Spec == Init /\ [][Next]_vars


(***************************************************************************)
(* LoopSpec: the two loops of a question, the values returned by the        *)
(* generator's choice being arbitrary                                       *)
(***************************************************************************)

\* Passes of one loop the model follows
MaxLoopPasses == 32

\* Lines 226-240 for the first question of the call
FirstQuestion ==
    /\ gen[1].questions = <<>>
    /\ BeginQuestion(1)

\* Lines 93-102: one pass of "while len(variants) < n", rng.choice returning
\* any of the four suffixes
AnyVariantIter ==
    /\ gen[1].pc = "variants"
    /\ Cardinality(gen[1].variants) < NumDistractors
    /\ iters < MaxLoopPasses
    /\ \E k \in 1..4 :
          LET variants == AddVariants(gen[1].variants, gen[1].correct, k)
              rng == RngNext(gen[1].rng)
          IN  gen' = [ gen EXCEPT ![1] =
                         IF VariantCapExceeded(variants)
                         THEN [ gen[1] EXCEPT !.rng = rng, !.variants = variants,
                                              !.pool = ListOfSet(variants, gen[1].hashseed),
                                              !.pc = "options" ]
                         ELSE [ gen[1] EXCEPT !.rng = rng, !.variants = variants ] ]
    /\ iters' = iters + 1
    /\ UNCHANGED << notes, title >>
    /\ UNCHANGED srvVars

\* Lines 250-254: one pass of "while len(options) < 4", rng.choice returning
\* any of the six suffixes
AnyRepadIter ==
    /\ gen[1].pc = "repad"
    /\ Len(gen[1].options) < NumOptions
    /\ iters < MaxLoopPasses
    /\ \E k \in 1..6 :
          gen' = [ gen EXCEPT ![1] =
                     [ gen[1] EXCEPT !.rng = RngNext(gen[1].rng),
                                     !.options = AddSynthetic(gen[1].options, gen[1].correct, k) ] ]
    /\ iters' = iters + 1
    /\ UNCHANGED << notes, title >>
    /\ UNCHANGED srvVars

LoopNext ==
    \/ Call(1)
    \/ FirstQuestion
    \/ AnyVariantIter
    \/ VariantExit(1)
    \/ BuildOptions(1)
    \/ AnyRepadIter
    \/ EmitQuestion(1)

LoopSpec == Init /\ [][LoopNext]_vars

(***************************************************************************)
(* ServerSpec: api/main.py and storage/json_store.py                        *)
(***************************************************************************)

\* Requests the server accepts in a run of the model
MaxRequests == 3

SrvNotes == { T_blank, W_cat, W_evil }
SrvTitles == { NoTitle, T_bio }

\* Mutant of TrimmedNotes: the notes are not trimmed before the test
UntrimmedNotes(n) == n

\* main.py line 91: notes = (note_in.notes or "").strip()
TrimmedNotes(n) == Strip(n)

\* A worker thread takes POST /notes
ReceiveSubmit(h) ==
    /\ handler[h].pc = "idle"
    /\ served < MaxRequests
    /\ \E n \in SrvNotes, t \in SrvTitles :
          handler' = [ handler EXCEPT ![h] =
                         [ IdleHandler EXCEPT !.pc = "start", !.kind = "submit",
                                              !.notes = n, !.title = t ] ]
    /\ served' = served + 1
    /\ UNCHANGED << hashseed, file >>
    /\ UNCHANGED genVars

\* A worker thread takes GET /
ReceiveHealth(h) ==
    /\ handler[h].pc = "idle"
    /\ served < MaxRequests
    /\ handler' = [ handler EXCEPT ![h] =
                      [ IdleHandler EXCEPT !.pc = "health_load", !.kind = "health" ] ]
    /\ served' = served + 1
    /\ UNCHANGED << hashseed, file >>
    /\ UNCHANGED genVars

\* submit_notes lines 91-93: empty notes raise HTTPException(400)
SubmitReject(h) ==
    /\ handler[h].pc = "start"
    /\ TrimmedNotes(handler[h].notes) = <<>>
    /\ handler' = [ handler EXCEPT ![h].pc = "idle", ![h].status = 400 ]
    /\ UNCHANGED << hashseed, served, file >>
    /\ UNCHANGED genVars

\* submit_notes lines 95-100: the quiz is generated; get_quiz is entered
SubmitGenerate(h) ==
    /\ handler[h].pc = "start"
    /\ TrimmedNotes(handler[h].notes) # <<>>
    /\ handler' = [ handler EXCEPT
                      ![h].quiz = generate_quiz_from_notes(TrimmedNotes(handler[h].notes),
                                                           handler[h].title, hashseed),
                      ![h].pc = "get_load" ]
    /\ UNCHANGED << hashseed, served, file >>
    /\ UNCHANGED genVars

LoadPcs == { "get_load", "add_load", "health_load" }

\* The caller of load_all the handler is in: "get", "add" or "health"
Caller(pc) ==
    CASE pc \in { "get_load", "get_create", "get_read" } -> "get"
      [] pc \in { "add_load", "add_create", "add_read" } -> "add"
      [] OTHER -> "health"

\* json_store.get_quiz lines 111-114: the first stored quiz with the id, or None
FindQuiz(data, quiz_id) ==
    IF \E i \in DOMAIN data : data[i].id = quiz_id
    THEN << data[CHOOSE i \in DOMAIN data :
                    data[i].id = quiz_id /\ \A j \in 1..(i - 1) : data[j].id # quiz_id] >>
    ELSE <<>>

\* What the handler does with the loaded data, up to its next access to the file:
\*   get_quiz (main.py 100-105): found: respond 201 with the generated quiz; not
\*     found: enter add_quiz
\*   add_quiz (json_store.py 93-96): append, then save_all
\*   health_check (main.py 65-66): respond 200
AfterLoad(hd, data) ==
    CASE Caller(hd.pc) = "get" ->
            IF FindQuiz(data, hd.quiz.id) # <<>>
            THEN [ hd EXCEPT !.data = data, !.pc = "idle", !.status = 201 ]
            ELSE [ hd EXCEPT !.data = data, !.pc = "add_load" ]
      [] Caller(hd.pc) = "add" ->
            [ hd EXCEPT !.data = Append(data, hd.quiz), !.pc = "add_save" ]
      [] OTHER -> [ hd EXCEPT !.data = data, !.pc = "idle", !.status = 200 ]

\* load_all line 45: os.path.exists(self.path)
LoadCheck(h) ==
    /\ handler[h].pc \in LoadPcs
    /\ handler' = [ handler EXCEPT ![h].pc =
                      Caller(handler[h].pc) \o (IF file = NoFile THEN "_create" ELSE "_read") ]
    /\ UNCHANGED << hashseed, served, file >>
    /\ UNCHANGED genVars

\* load_all lines 46-48: the file was missing: write and return {"quizzes": []}
LoadCreate(h) ==
    /\ handler[h].pc \in { "get_create", "add_create", "health_create" }
    /\ file' = <<>>
    /\ handler' = [ handler EXCEPT ![h] = AfterLoad(handler[h], <<>>) ]
    /\ UNCHANGED << hashseed, served >>
    /\ UNCHANGED genVars

\* load_all lines 50-63: read the file (every write is atomic and well-formed)
LoadRead(h) ==
    /\ handler[h].pc \in { "get_read", "add_read", "health_read" }
    /\ handler' = [ handler EXCEPT ![h] = AfterLoad(handler[h], file) ]
    /\ UNCHANGED << hashseed, served, file >>
    /\ UNCHANGED genVars

\* add_quiz lines 96-97 and submit_notes line 105: save_all, respond 201
AddSave(h) ==
    /\ handler[h].pc = "add_save"
    /\ file' = handler[h].data
    /\ handler' = [ handler EXCEPT ![h].pc = "idle", ![h].status = 201 ]
    /\ UNCHANGED << hashseed, served >>
    /\ UNCHANGED genVars

ServerInit ==
    /\ notes = <<>>
    /\ title = NoTitle
    /\ gen = [ r \in Calls |-> GenCall(0) ]
    /\ iters = 0
    /\ hashseed \in HashSeeds
    /\ served = 0
    /\ file = NoFile
    /\ handler = [ h \in Handlers |-> IdleHandler ]

ServerNext ==
    \E h \in Handlers :
        \/ ReceiveSubmit(h)
        \/ ReceiveHealth(h)
        \/ SubmitReject(h)
        \/ SubmitGenerate(h)
        \/ LoadCheck(h)
        \/ LoadCreate(h)
        \/ LoadRead(h)
        \/ AddSave(h)

ServerSpec == ServerInit /\ [][ServerNext]_vars

(***************************************************************************)
(* Properties of the generator, checked under Spec                          *)
(***************************************************************************)

Done(r) == gen[r].pc = "done"

\* C1: two calls with the same notes and title return identical quizzes (id,
\* title, created_at, source_notes_hash, questions, options and their order,
\* correct_index), also when the calls are made in different processes.
Determinism == (Done(1) /\ Done(2)) => gen[1].quiz = gen[2].quiz

\* C2: for notes that are non-empty after trimming, the returned quiz has
\* between 5 and 8 questions.
QuestionCountInRange ==
    \A r \in Calls :
        (Done(r) /\ Strip(notes) # <<>>) =>
            (Len(gen[r].quiz.questions) >= 5 /\ Len(gen[r].quiz.questions) <= 8)

PairwiseDistinct(seq) == \A i, j \in DOMAIN seq : i # j => seq[i] # seq[j]

\* C3: every question built has exactly 4 options, pairwise distinct and
\* non-empty, and a correct_index in 0..3.
OptionsWellFormed ==
    \A r \in Calls : \A i \in DOMAIN gen[r].questions :
        LET q == gen[r].questions[i]
        IN  /\ Len(q.options) = 4
            /\ PairwiseDistinct(q.options)
            /\ \A k \in DOMAIN q.options : q.options[k] # <<>>
            /\ q.correct_index \in 0..3

\* An option that only the re-padding loop appends: the term with "ity" or "ness"
Repadded(q, term) ==
    \E k \in DOMAIN q.options : q.options[k] \in { term \o Str_ity, term \o Str_ness }

\* Witness of C3: a finished quiz with a question built from a short pool (the
\* synthesized variants) whose options were re-padded after deduplication.
OptionsWellFormedWitness ==
    \E r \in Calls :
        /\ Done(r)
        /\ Len(gen[r].all_terms) <= NumDistractors
        /\ \E i \in DOMAIN gen[r].questions : Repadded(gen[r].questions[i], gen[r].picked[i].term)

\* C4: options[correct_index] is the term the question was built from, and the
\* term is in the option list (at its head) when the options are shuffled, so
\* the "not found, default 0" branch is not taken.
AnswerKeyCorrect ==
    \A r \in Calls :
        /\ \A i \in DOMAIN gen[r].questions :
              LET q == gen[r].questions[i]
              IN  /\ q.correct_index + 1 \in DOMAIN q.options
                  /\ q.options[q.correct_index + 1] = gen[r].picked[i].term
        /\ gen[r].pc = "repad" =>
              /\ gen[r].options # <<>>
              /\ gen[r].options[1] = gen[r].correct
              /\ gen[r].correct = gen[r].picked[Len(gen[r].questions) + 1].term

\* Witness of C4: a question whose duplicate of the term was dropped and whose
\* term was moved off position 0 by the shuffle.
AnswerKeyCorrectWitness ==
    \E r \in Calls : \E i \in DOMAIN gen[r].questions :
        /\ Repadded(gen[r].questions[i], gen[r].picked[i].term)
        /\ gen[r].questions[i].correct_index > 0

\* The k-th candidate in (descending frequency, ascending term) order
RankedCandidate(cs, k) ==
    CHOOSE c \in Range(cs) :
        Cardinality({ d \in Range(cs) :
                        d.freq > c.freq \/ (d.freq = c.freq /\ StrLess(d.term, c.term)) }) = k - 1

Str_amp == << " ", "&", " " >>

SuppliedTitle(t) == t # NoTitle /\ Strip(t) # <<>>

TopTwoTitle(cs) ==
    Str_Quiz \o Capitalize(RankedCandidate(cs, 1).term) \o Str_amp
             \o Capitalize(RankedCandidate(cs, 2).term)

\* C8 as stated: the trimmed supplied title, else "Quiz: T1 & T2" for the top two
\* candidates, and "Quiz: Study Notes" with fewer than two candidates.
TitleAsClaimed ==
    \A r \in Calls :
        Done(r) =>
            gen[r].quiz.title =
                IF SuppliedTitle(title) THEN Strip(title)
                ELSE IF Len(gen[r].candidates) >= 2 THEN TopTwoTitle(gen[r].candidates)
                ELSE Str_Quiz \o Str_StudyNotes

\* C8 amended: with exactly one candidate the title is "Quiz: " + capitalized(term1);
\* the candidate list is never empty, so "Quiz: Study Notes" is never produced.
TitleDerivation ==
    \A r \in Calls :
        Done(r) =>
            /\ Len(gen[r].candidates) >= 1
            /\ gen[r].quiz.title =
                  IF SuppliedTitle(title) THEN Strip(title)
                  ELSE IF Len(gen[r].candidates) >= 2 THEN TopTwoTitle(gen[r].candidates)
                  ELSE Str_Quiz \o Capitalize(gen[r].candidates[1].term)

\* Witness of C8: a quiz with a derived title from exactly one candidate
TitleDerivationWitness ==
    \E r \in Calls :
        Done(r) /\ ~SuppliedTitle(title) /\ Len(gen[r].candidates) = 1

W_mitochondria == <<"m", "i", "t", "o", "c", "h", "o", "n", "d", "r", "i", "a">>
W_respiration == <<"r", "e", "s", "p", "i", "r", "a", "t", "i", "o", "n">>
W_atp == <<"a", "t", "p">>
W_powerhouse == <<"p", "o", "w", "e", "r", "h", "o", "u", "s", "e">>
W_produce == <<"p", "r", "o", "d", "u", "c", "e">>
W_cell == <<"c", "e", "l", "l">>

MitoTerms == { W_mitochondria, W_respiration, W_atp, W_powerhouse, W_produce, W_cell }

MitoOptions(r) ==
    \A i \in DOMAIN gen[r].quiz.questions :
        LET q == gen[r].quiz.questions[i]
        IN  /\ Len(q.options) = 4
            /\ PairwiseDistinct(q.options)
            /\ Range(q.options) \subseteq MitoTerms

\* C9 as stated: the mitochondria notes give exactly 5 questions, each with 4
\* unique options drawn from the extracted terms.
MitoQuizAsClaimed ==
    \A r \in Calls :
        (Done(r) /\ notes = MitoNotes) =>
            (Len(gen[r].quiz.questions) = 5 /\ MitoOptions(r))

\* C9 amended: the notes have 6 candidates and the quiz has exactly 6 questions
\* (clamp(6, 5, 8) = 6), each with 4 unique options drawn from the six terms.
MitoQuiz ==
    \A r \in Calls :
        (Done(r) /\ notes = MitoNotes) =>
            /\ { gen[r].candidates[i].term : i \in DOMAIN gen[r].candidates } = MitoTerms
            /\ Len(gen[r].quiz.questions) = 6
            /\ MitoOptions(r)

\* Witness of C9: a finished quiz of the mitochondria notes
MitoQuizWitness == \E r \in Calls : Done(r) /\ notes = MitoNotes

\* No alphabetic token of the notes passes the stopword and length filter
NoExtractableToken(text) ==
    \A run \in Range(Runs(text, AlphaChars)) : Lower(run) \in STOPWORDS \/ Len(run) <= 2

\* C10: for notes without an extractable token the quiz has exactly 5 questions,
\* their correct terms are 5 distinct placeholders Concept1..Concept11, every
\* option is a placeholder, and the only supporting sentence of each question is
\* the entire (trimmed) notes text.
PlaceholderFallback ==
    \A r \in Calls :
        (Done(r) /\ NoExtractableToken(notes)) =>
            LET qs == gen[r].quiz.questions
                terms == [ i \in DOMAIN qs |-> qs[i].options[qs[i].correct_index + 1] ]
            IN  /\ Len(qs) = 5
                /\ PairwiseDistinct(terms)
                /\ Range(terms) \subseteq Range(Placeholders)
                /\ \A i \in DOMAIN qs : Range(qs[i].options) \subseteq Range(Placeholders)
                /\ \A i \in DOMAIN gen[r].picked : gen[r].picked[i].sentences = << Strip(notes) >>
                /\ \A i \in DOMAIN qs : qs[i].question[2] = Strip(notes)

\* Witness of C10: a finished quiz of the notes "12345 !!! 6789"
PlaceholderFallbackWitness == \E r \in Calls : Done(r) /\ notes = DigitNotes


\* The tokens of the sentences that pass the stopword and length filter
KeptTokens(sentences) ==
    UNION { { t \in Range(tokenize_alpha(sentences[i])) : ~(t \in STOPWORDS) /\ Len(t) > 2 } :
            i \in DOMAIN sentences }

\* Number of occurrences of the token t in one sentence
OccurrencesIn(t, sent) ==
    LET tokens == tokenize_alpha(sent)
    IN  Cardinality({ k \in DOMAIN tokens : tokens[k] = t })

\* Total number of occurrences of the token t in the sentences
RECURSIVE Occurrences(_, _)
Occurrences(t, sentences) ==
    IF sentences = <<>> THEN 0
    ELSE OccurrencesIn(t, Head(sentences)) + Occurrences(t, Tail(sentences))

\* The first (at most 3) distinct sentences that contain t, in first-seen order
FirstExamples(t, sentences) ==
    LET holding == SelectIdx(sentences, { i \in DOMAIN sentences : OccurrencesIn(t, sentences[i]) > 0 })
        distinct == SelectIdx(holding, { i \in DOMAIN holding :
                                           \A j \in 1..(i - 1) : holding[j] # holding[i] })
    IN  SubSeq(distinct, 1, IF Len(distinct) < 3 THEN Len(distinct) ELSE 3)

\* The sentences of call r have been extracted
Extracted(r) == gen[r].pc # "call" /\ gen[r].sentences # <<>>

\* C11: collect_candidates returns one candidate per token that is not a
\* stopword and is longer than 2, with freq its total number of occurrences,
\* with an example list of at most 3 pairwise distinct sentences (the first
\* sentences that contain the term, in first-seen order), the candidates being
\* ordered by descending frequency, then ascending term.
CandidatesAsClaimed ==
    \A r \in Calls :
        Extracted(r) =>
            LET sents == gen[r].sentences
                cands == collect_candidates(sents)
            IN  /\ { cands[i].term : i \in DOMAIN cands } = KeptTokens(sents)
                /\ \A i, j \in DOMAIN cands : i # j => cands[i].term # cands[j].term
                /\ \A i \in DOMAIN cands :
                      /\ cands[i].freq = Occurrences(cands[i].term, sents)
                      /\ Len(cands[i].sentences) <= 3
                      /\ PairwiseDistinct(cands[i].sentences)
                      /\ cands[i].sentences = FirstExamples(cands[i].term, sents)
                /\ \A i \in DOMAIN cands : i < Len(cands) =>
                      \/ cands[i].freq > cands[i + 1].freq
                      \/ /\ cands[i].freq = cands[i + 1].freq
                         /\ StrLess(cands[i].term, cands[i + 1].term)

\* The part of C11 that does not depend on the example lists: terms, freq and order
CandidatesCounted ==
    \A r \in Calls :
        Extracted(r) =>
            LET sents == gen[r].sentences
                cands == collect_candidates(sents)
            IN  /\ { cands[i].term : i \in DOMAIN cands } = KeptTokens(sents)
                /\ \A i, j \in DOMAIN cands : i # j => cands[i].term # cands[j].term
                /\ \A i \in DOMAIN cands :
                      /\ cands[i].freq = Occurrences(cands[i].term, sents)
                      /\ Len(cands[i].sentences) <= 3
                /\ \A i \in DOMAIN cands : i < Len(cands) =>
                      \/ cands[i].freq > cands[i + 1].freq
                      \/ /\ cands[i].freq = cands[i + 1].freq
                         /\ StrLess(cands[i].term, cands[i + 1].term)


(***************************************************************************)
(* Properties of the loops, checked under LoopSpec                          *)
(***************************************************************************)

\* C7: the variant-synthesis loop and the re-padding loop finish for every term
\* and every sequence of values of the generator's choice, within the cap of
\* 10 times the target on the number of passes of a loop.
LoopPassesBounded == iters <= 10 * NumDistractors

(***************************************************************************)
(* Properties of the server, checked under ServerSpec                       *)
(***************************************************************************)

\* C5: the store never holds two records with the same id.
StoreIdsUnique ==
    file # NoFile => \A i, j \in DOMAIN file : i # j => file[i].id # file[j].id

EmptyRequest(h) ==
    /\ handler[h].kind = "submit"
    /\ \A i \in DOMAIN handler[h].notes : handler[h].notes[i] \in SpaceChars

\* C6: a submit_notes request whose notes are empty after trimming is answered
\* 400 in its first step: no quiz is produced, the store is not entered (add_quiz
\* is not called) and the file is left as it is.
EmptyNotesRejected ==
    [][ \A h \in Handlers :
          (EmptyRequest(h) /\ handler[h].pc = "start" /\ handler'[h] # handler[h]) =>
              /\ handler'[h].pc = "idle"
              /\ handler'[h].status = 400
              /\ handler'[h].quiz = <<>>
              /\ file' = file ]_vars

\* Witness of C6: a rejected request with whitespace-only notes, the store
\* holding a quiz at that time
EmptyNotesRejectedWitness ==
    \E h \in Handlers :
        /\ EmptyRequest(h)
        /\ handler[h].pc = "idle"
        /\ handler[h].status = 400
        /\ file # NoFile
        /\ file # <<>>

\* C12: once add_quiz has saved a quiz, the quiz stays in the store unchanged:
\* no step of any handler removes or modifies a stored quiz (or the file).
StoredQuizzesKept ==
    [][ file # NoFile =>
          /\ file' # NoFile
          /\ \A i \in DOMAIN file : \E j \in DOMAIN file' : file'[j] = file[i] ]_vars

\* Handler h returns a quiz from submit_notes in this step
SubmitReturns(h) ==
    /\ handler[h].kind = "submit"
    /\ handler[h].pc # "idle"
    /\ handler'[h].pc = "idle"
    /\ handler'[h].status = 201

\* C13: whenever submit_notes returns a quiz Q, a get_quiz(Q.id) that follows
\* the return finds a stored record equal to Q in every field.
SubmitThenGet ==
    [][ \A h \in Handlers :
          SubmitReturns(h) =>
              /\ file' # NoFile
              /\ FindQuiz(file', handler'[h].quiz.id) = << handler'[h].quiz >> ]_vars

=============================================================================
